---- MODULE Spec2Model ----
(***************************************************************************)
(* A model of src/model.py: BlackHolePhysics (the field model) and         *)
(* GravitationalLensingAnimation with the animate callback (the frame      *)
(* pipeline).                                                              *)
(*                                                                         *)
(* Numbers.  The program computes in IEEE-754 doubles through numpy.  The  *)
(* model computes in fixed point: a number v is the integer                *)
(* round(v * Scale).  The three special doubles are kept as three integers *)
(* outside the range of every finite value of the model (PosInf, NegInf,   *)
(* NaN), and every arithmetic operator below follows numpy's rules for     *)
(* them: x/0 is inf or nan (a RuntimeWarning, no exception), inf*0 is nan, *)
(* nan propagates through +, *, /, sqrt, sin, maximum and clip, and every  *)
(* comparison with nan is false.                                           *)
(***************************************************************************)
EXTENDS Integers, Sequences, FiniteSets

Scale == 10 * 10 * 10

PosInf == 2000000 * Scale
NegInf == 0 - PosInf
NaN    == PosInf + 1

IsFinite(v) == v # NaN /\ v # PosInf /\ v # NegInf

\* A literal n/d of the source, e.g. 0.05 is Lit(5, 100).
Lit(n, d) == (n * Scale) \div d

Abs(n) == IF n < 0 THEN 0 - n ELSE n
Sgn(n) == IF n < 0 THEN 0 - 1 ELSE IF n > 0 THEN 1 ELSE 0

RECURSIVE IsqrtIn(_, _, _)
IsqrtIn(n, lo, hi) ==
    IF lo >= hi THEN lo
    ELSE LET mid == (lo + hi + 1) \div 2
         IN  IF mid * mid <= n THEN IsqrtIn(n, mid, hi) ELSE IsqrtIn(n, lo, mid - 1)

\* floor(sqrt(n)) for 0 <= n < 2^31
Isqrt(n) == IsqrtIn(n, 0, 46340)

\* sqrt(n) rounded to the nearest integer
IsqrtNearest(n) == LET s == Isqrt(n) IN IF n - s * s > s THEN s + 1 ELSE s

FNeg(v) ==
    IF v = NaN THEN NaN
    ELSE IF v = PosInf THEN NegInf
    ELSE IF v = NegInf THEN PosInf
    ELSE 0 - v

FAbs(v) == IF v = NaN THEN NaN ELSE IF v = NegInf THEN PosInf ELSE Abs(v)

FAdd(x, y) ==
    IF x = NaN \/ y = NaN THEN NaN
    ELSE IF x = PosInf THEN (IF y = NegInf THEN NaN ELSE PosInf)
    ELSE IF x = NegInf THEN (IF y = PosInf THEN NaN ELSE NegInf)
    ELSE IF y = PosInf \/ y = NegInf THEN y
    ELSE x + y

FSub(x, y) == FAdd(x, FNeg(y))

FMul(x, y) ==
    IF x = NaN \/ y = NaN THEN NaN
    ELSE IF ~IsFinite(x) \/ ~IsFinite(y)
         THEN (IF x = 0 \/ y = 0 THEN NaN
               ELSE IF Sgn(x) * Sgn(y) > 0 THEN PosInf ELSE NegInf)
    ELSE Sgn(x) * Sgn(y) * ((Abs(x) * Abs(y) + Scale \div 2) \div Scale)

FDiv(x, y) ==
    IF x = NaN \/ y = NaN THEN NaN
    ELSE IF ~IsFinite(x)
         THEN (IF ~IsFinite(y) THEN NaN
               ELSE IF Sgn(x) * (IF y < 0 THEN 0 - 1 ELSE 1) > 0 THEN PosInf ELSE NegInf)
    ELSE IF ~IsFinite(y) THEN 0
    ELSE IF y = 0
         THEN (IF x = 0 THEN NaN ELSE IF x > 0 THEN PosInf ELSE NegInf)
    ELSE Sgn(x) * Sgn(y) * ((Abs(x) * Scale + Abs(y) \div 2) \div Abs(y))

\* np.sqrt
FSqrt(v) ==
    IF v = NaN \/ v = NegInf THEN NaN
    ELSE IF v = PosInf THEN PosInf
    ELSE IF v < 0 THEN NaN
    ELSE IsqrtNearest(v * Scale)

\* np.maximum, np.minimum: nan propagates
FMax(x, y) == IF x = NaN \/ y = NaN THEN NaN ELSE IF x >= y THEN x ELSE y
FMin(x, y) == IF x = NaN \/ y = NaN THEN NaN ELSE IF x <= y THEN x ELSE y

\* np.clip(v, lo, hi) = minimum(maximum(v, lo), hi)
FClip(v, lo, hi) == FMin(FMax(v, lo), hi)

\* comparisons of doubles: false when either side is nan
FLt(x, y) == x # NaN /\ y # NaN /\ x < y
FLe(x, y) == x # NaN /\ y # NaN /\ x <= y
FGt(x, y) == FLt(y, x)

\* pi and 2*pi in millionths, for the range reduction of sin
PiMicro    == 3141593
TwoPiMicro == 6283185
\* millionths per unit of the model
Micro      == 1000000 \div Scale
Pi         == (PiMicro + Micro \div 2) \div Micro
HalfPi     == (PiMicro + Micro) \div (2 * Micro)

\* v reduced to (-pi, pi], v finite
ReduceAngle(v) ==
    LET m == (v * Micro) % TwoPiMicro
        c == IF m > PiMicro THEN m - TwoPiMicro ELSE m
    IN  Sgn(c) * ((Abs(c) + Micro \div 2) \div Micro)

\* the Taylor polynomial of sin to x^9, in Horner form, for |x| <= pi/2
SinPoly(x) ==
    LET x2 == FMul(x, x)
        t4 == Scale - x2 \div 72
        t3 == Scale - FMul(x2, t4) \div 42
        t2 == Scale - FMul(x2, t3) \div 20
        t1 == Scale - FMul(x2, t2) \div 6
    IN  FMul(x, t1)

\* np.sin
FSin(v) ==
    IF ~IsFinite(v) THEN NaN
    ELSE LET r == ReduceAngle(v)
             f == IF r > HalfPi THEN Pi - r
                  ELSE IF r < 0 - HalfPi THEN 0 - Pi - r
                  ELSE r
         IN  FClip(SinPoly(f), 0 - Scale, Scale)

\* np.cos
FCos(v) == IF ~IsFinite(v) THEN NaN ELSE FSin(v + HalfPi)

\* the Taylor polynomial of exp to x^5, for |x| <= 1/2
ExpPoly(x) ==
    LET t5 == Scale + x \div 5
        t4 == Scale + FMul(x, t5) \div 4
        t3 == Scale + FMul(x, t4) \div 3
        t2 == Scale + FMul(x, t3) \div 2
    IN  Scale + FMul(x, t2)

RECURSIVE ExpHalving(_)
ExpHalving(x) ==
    IF Abs(x) <= Scale \div 2 THEN ExpPoly(x)
    ELSE LET h == ExpHalving(x \div 2) IN FMul(h, h)

\* np.exp.  Below exp(-20) the result is 0 at the model's resolution; the
\* argument of every exp of the program is <= 0, and the model saturates an
\* argument above 7, which the program never produces.
FExp(v) ==
    IF v = NaN THEN NaN
    ELSE IF v = NegInf THEN 0
    ELSE IF v = PosInf \/ v > 7 * Scale THEN PosInf
    ELSE IF v < 0 - 20 * Scale THEN 0
    ELSE ExpHalving(v)

\* the series of arctan to t^9, for |t| <= tan(pi/8)
AtanPoly(t) ==
    LET t2 == FMul(t, t)
        s4 == Scale \div 7 - FMul(t2, Scale \div 9)
        s3 == Scale \div 5 - FMul(t2, s4)
        s2 == Scale \div 3 - FMul(t2, s3)
        s1 == Scale - FMul(t2, s2)
    IN  FMul(t, s1)

\* arctan(t) for |t| <= 1, by arctan(t) = 2 arctan(t / (1 + sqrt(1 + t^2)))
AtanUnit(t) == 2 * AtanPoly(FDiv(t, Scale + FSqrt(Scale + FMul(t, t))))

\* np.arctan2(y, x), for finite y and x; arctan2(0, 0) = 0
FAtan2(y, x) ==
    IF y = NaN \/ x = NaN THEN NaN
    ELSE IF x = 0 /\ y = 0 THEN 0
    ELSE IF Abs(y) <= Abs(x)
         THEN (IF x > 0 THEN AtanUnit(FDiv(y, x))
               ELSE IF y >= 0 THEN AtanUnit(FDiv(y, x)) + Pi
               ELSE AtanUnit(FDiv(y, x)) - Pi)
    ELSE IF y > 0 THEN HalfPi - AtanUnit(FDiv(x, y))
    ELSE 0 - HalfPi - AtanUnit(FDiv(x, y))

(***************************************************************************)
(* Bounds of the model.                                                    *)
(***************************************************************************)
\* grid_size ranges over -1 .. MaxGrid
MaxGrid == 5
\* animate(frame) is called with frame = k * FrameStride, k in 0 .. MaxFrameIdx
MaxFrameIdx == 3
FrameStride == 21
\* the field model is probed at the integer positions of -MaxCoord .. MaxCoord
MaxCoord == 2

(***************************************************************************)
(* The state.  numpy arrays are objects on a heap: a variable of the       *)
(* program holds a reference (0 is None), and heap maps each live          *)
(* reference to the array's content, a function from the cells <<i, j>>    *)
(* (row i, column j) to numbers.  An in-place operation of the source      *)
(* (+=, *=, an indexed assignment) writes heap at the reference it is      *)
(* applied to.                                                             *)
(***************************************************************************)
VARIABLES
    pc,                 \* the renderer's position: "new", "error", "ready",
                        \* "lensed", "relativistic", "glow", "shown"
    black_hole,         \* the BlackHolePhysics object: [M, a, rs, c]
    grid_size,          \* self.grid_size
    X, Y, R,            \* self.X, self.Y, self.R (references)
    background,         \* self.background (reference)
    heap,
    frame,              \* the argument of animate
    rotation_angle,     \* locals of animate
    lensed_image, relativistic_image, photon_glow, final_image,
    reads,              \* history: the background reads of the last lookup loop
    divisors,           \* history: the divisors of the last frame's divisions by r
    remembered,         \* history: one earlier finished frame, [rot, out]
    fpc,                \* the field object's position: "off", "new", "ready",
                        \* "called", "done"
    probe,              \* the last gravitational_lensing call: [x, y, dx, dy]
    probe_prev,         \* the gravitational_lensing call before it
    doppler             \* the last doppler_shift call: [x, y, rot, out]

vars == <<pc, black_hole, grid_size, X, Y, R, background, heap, frame,
          rotation_angle, lensed_image, relativistic_image, photon_glow,
          final_image, reads, divisors, remembered, fpc, probe, probe_prev,
          doppler>>

renderer_vars == <<pc, grid_size, X, Y, R, background, heap, frame,
                   rotation_angle, lensed_image, relativistic_image,
                   photon_glow, final_image, reads, divisors, remembered>>

None == 0
EmptyHeap == [r \in {} |-> <<>>]
NoBlackHole == [M |-> 0, a |-> 0, rs |-> 0, c |-> 0]
NoProbe == [x |-> 0, y |-> 0, dx |-> 0, dy |-> 0, set |-> FALSE]
NoDoppler == [x |-> 0, y |-> 0, rot |-> 0, out |-> 0, set |-> FALSE]
NoFrame == [frame |-> 0, out |-> <<>>, set |-> FALSE, other |-> FALSE]

(***************************************************************************)
(* BlackHolePhysics                                                        *)
(***************************************************************************)
BlackHolePhysics_init(mass, spin) ==
    [M |-> mass, a |-> FMul(spin, mass), rs |-> 2 * mass, c |-> Scale]

\* 1 - self.rs/r, floored at 0.01
metric_factor(bh, r) == FMax(FSub(Scale, FDiv(bh.rs, r)), Lit(1, 100))

schwarzschild_metric_effects(bh, r) ==
    [time_dilation     |-> FSqrt(metric_factor(bh, r)),
     spatial_curvature |-> FDiv(Scale, metric_factor(bh, r))]

\* r = np.sqrt(x**2 + y**2)
radius(x, y) == FSqrt(FAdd(FMul(x, x), FMul(y, y)))

\* the floor written as 1.0
lensing_floor_wide == Lit(1, 1)

lensing_floor == Lit(1, 10)

\* r = np.maximum(r, 0.1)
lensing_radius(x, y) == FMax(radius(x, y), lensing_floor)

gravitational_lensing(bh, x, y) ==
    LET r == lensing_radius(x, y)
        deflection_strength == FDiv(4 * bh.M, r)
        cos_theta == FDiv(x, r)
        sin_theta == FDiv(y, r)
    IN  [x |-> FMul(FNeg(deflection_strength), sin_theta),
         y |-> FMul(deflection_strength, cos_theta)]

\* r**3 + self.a**2 * r
doppler_denominator(bh, r) ==
    FAdd(FMul(FMul(r, r), r), FMul(FMul(bh.a, bh.a), r))

doppler_shift(bh, x, y, rot) ==
    LET r == radius(x, y)
        omega_drag == FDiv(FMul(2 * bh.M, bh.a), doppler_denominator(bh, r))
        phi == FAtan2(y, x)
        v_phi == FMul(omega_drag, r)
        doppler_factor ==
            FDiv(Scale, FAdd(Scale, FMul(v_phi, FSin(FAdd(phi, rot)))))
    IN  FClip(doppler_factor, Lit(3, 10), 2 * Scale)

(***************************************************************************)
(* GravitationalLensingAnimation: construction                             *)
(***************************************************************************)
extent == 8

Idx(n) == 0 .. (n - 1)
Cells(n) == Idx(n) \X Idx(n)

\* the first reference not in use
NewRef(h) == CHOOSE r \in 1 .. (Cardinality(DOMAIN h) + 1) : r \notin DOMAIN h

\* h with a new array of content arr; the new reference is NewRef(h)
Alloc(h, arr) == [r \in DOMAIN h \cup {NewRef(h)} |-> IF r \in DOMAIN h THEN h[r] ELSE arr]

\* np.linspace(start, stop, num)[k] for num >= 1: start + k * step, with the
\* last sample set to stop
Linspace(start, stop, num, k) ==
    IF num > 1 /\ k = num - 1 THEN stop
    ELSE IF num = 1 THEN start
    ELSE FAdd(start, FDiv(k * (stop - start), (num - 1) * Scale))

\* np.linspace raises ValueError for a negative number of samples
LinspaceRaises(num) == num < 0

\* setup_coordinates: the contents of self.X, self.Y and self.R
meshgrid_X(n) == [c \in Cells(n) |-> Linspace((0 - extent) * Scale, extent * Scale, n, c[2])]
meshgrid_Y(n) == [c \in Cells(n) |-> Linspace((0 - extent) * Scale, extent * Scale, n, c[1])]
radius_grid(xs, ys) == [c \in DOMAIN xs |-> radius(xs[c], ys[c])]

grid_freq == 8

\* create_background_pattern: the content of self.background
background_pattern(xs, ys, rs) ==
    [c \in DOMAIN xs |->
        LET gx == FMul(xs[c], grid_freq * Scale)
            gy == FMul(ys[c], grid_freq * Scale)
            pattern1 == FMul(FSin(gx), FSin(gy))
            pattern2 == FMul(FSin(FMul(gx, Lit(7, 10))), FCos(FMul(gy, Lit(13, 10))))
            first == FAdd(FAdd(Lit(5, 10), FMul(Lit(3, 10), pattern1)),
                          FMul(Lit(2, 10), pattern2))
            radial_pattern == FMul(FSin(FMul(rs[c], 2 * Scale)),
                                   FExp(FDiv(FNeg(rs[c]), 10 * Scale)))
        IN  FAdd(first, FMul(Lit(2, 10), radial_pattern))]

\* GravitationalLensingAnimation.__init__(grid_size): a call with a negative
\* grid_size ends in np.linspace's ValueError; every other call returns a
\* renderer.
Construct(n) ==
    /\ pc = "new"
    /\ grid_size' = n
    /\ black_hole' = BlackHolePhysics_init(2 * Scale, Lit(8, 10))
    /\ IF LinspaceRaises(n)
       THEN /\ pc' = "error"
            /\ UNCHANGED <<X, Y, R, background, heap>>
       ELSE LET xs == meshgrid_X(n)
                ys == meshgrid_Y(n)
                rr == radius_grid(xs, ys)
                h1 == Alloc(heap, xs)
                h2 == Alloc(h1, ys)
                h3 == Alloc(h2, rr)
                h4 == Alloc(h3, background_pattern(xs, ys, rr))
            IN  /\ pc' = "ready"
                /\ X' = NewRef(heap)
                /\ Y' = NewRef(h1)
                /\ R' = NewRef(h2)
                /\ background' = NewRef(h3)
                /\ heap' = h4
    /\ UNCHANGED <<frame, rotation_angle, lensed_image, relativistic_image,
                   photon_glow, final_image, reads, divisors, remembered,
                   fpc, probe, probe_prev, doppler>>

(***************************************************************************)
(* The frame pipeline: animate(frame) and the three methods it calls.      *)
(***************************************************************************)
Frames == {k * FrameStride : k \in 0 .. MaxFrameIdx}

\* an implicit frame counter: every call advances the previous angle by 0.05
RotationAngleCounting(f) == FAdd(rotation_angle, Lit(5, 100))

\* rotation_angle = frame * 0.05
RotationAngle(f) == FMul(f * Scale, Lit(5, 100))

\* the renderer's own arrays: what stays live between two calls of animate
Shared == {X, Y, R, background}
LiveHeap(h) == [r \in DOMAIN h \cap Shared |-> h[r]]

\* lensed_image bound to the array itself instead of a new one
zeros_like_alias(h, ref) == [heap |-> h, ref |-> ref]

\* np.zeros_like(a): a new array of a's shape
zeros_like(h, ref) ==
    [heap |-> Alloc(h, [c \in DOMAIN h[ref] |-> 0]), ref |-> NewRef(h)]

\* int(v): truncation toward zero
IntTrunc(v) == IF v >= 0 THEN v \div Scale ELSE 0 - ((0 - v) \div Scale)

\* the index scaled by the wrong width: int((coord + 8) * self.grid_size / 32)
GridIndexHalfScale(coord, n) ==
    IntTrunc(FDiv(FMul(FAdd(coord, 8 * Scale), n * Scale), 32 * Scale))

NoIndex == <<>>

\* int((coord + 8) * self.grid_size / 16)
GridIndex(coord, n) ==
    IntTrunc(FDiv(FMul(FAdd(coord, 8 * Scale), n * Scale), 16 * Scale))

\* the lookup without its two checks
BackgroundIndexUnchecked(sx, sy, n) == <<GridIndex(sy, n), GridIndex(sx, n)>>

\* lines 102-107: the index <<grid_y, grid_x>> read from self.background for
\* the source position (sx, sy), or NoIndex when nothing is read
BackgroundIndex(sx, sy, n) ==
    IF FLt(FAbs(sx), 8 * Scale) /\ FLt(FAbs(sy), 8 * Scale)
    THEN LET grid_x == GridIndex(sx, n)
             grid_y == GridIndex(sy, n)
         IN  IF 0 <= grid_x /\ grid_x < n /\ 0 <= grid_y /\ grid_y < n
             THEN <<grid_y, grid_x>>
             ELSE NoIndex
    ELSE NoIndex

\* numpy indexing a[i, j] of an n x n array: an index in -n .. -1 counts from
\* the end, any other index outside 0 .. n-1 raises IndexError
WrapIndex(i, n) == IF i < 0 THEN i + n ELSE i
IndexRaises(idx, n) ==
    \E k \in 1 .. 2 : idx[k] < 0 - n \/ idx[k] >= n
ArrayGet(arr, n, idx) == arr[<<WrapIndex(idx[1], n), WrapIndex(idx[2], n)>>]

\* lines 80-90: the source position of every cell
SourcePositions(h, bh, rot) ==
    [c \in DOMAIN h[X] |->
        LET d == gravitational_lensing(bh, h[X][c], h[Y][c])
            cos_rot == FCos(rot)
            sin_rot == FSin(rot)
            deflection_x_rot == FSub(FMul(d.x, cos_rot), FMul(d.y, sin_rot))
            deflection_y_rot == FAdd(FMul(d.x, sin_rot), FMul(d.y, cos_rot))
        IN  [x |-> FAdd(h[X][c], deflection_x_rot),
             y |-> FAdd(h[Y][c], deflection_y_rot)]]

\* the horizon test without its margin: self.R[i, j] < self.black_hole.rs
InsideHorizonOnly(r, bh) == FLt(r, bh.rs)

\* line 98: self.R[i, j] < self.black_hole.rs * 1.1
InsideHorizonMargin(r, bh) == FLt(r, FMul(bh.rs, Lit(11, 10)))

\* lines 93-107: the loop over the cells in row-major order, from cell number
\* k on; every write goes to the array img refers to
RECURSIVE LensLoop(_, _, _, _, _, _)
LensLoop(h, bh, n, img, src, k) ==
    IF k >= n * n THEN h
    ELSE LET c == <<k \div n, k % n>>
             idx == BackgroundIndex(src[c].x, src[c].y, n)
         IN  IF InsideHorizonMargin(h[R][c], bh)
             THEN LensLoop([h EXCEPT ![img][c] = 0], bh, n, img, src, k + 1)
             ELSE IF idx # NoIndex /\ ~IndexRaises(idx, n)
             THEN LensLoop([h EXCEPT ![img][c] = ArrayGet(h[background], n, idx)],
                           bh, n, img, src, k + 1)
             ELSE LensLoop(h, bh, n, img, src, k + 1)

\* the reads of self.background the loop makes
LookupReads(h, bh, n, src) ==
    {[cell |-> c, sx |-> src[c].x, sy |-> src[c].y,
      idx |-> BackgroundIndex(src[c].x, src[c].y, n)] :
        c \in {d \in DOMAIN src :
                 /\ ~InsideHorizonMargin(h[R][d], bh)
                 /\ BackgroundIndex(src[d].x, src[d].y, n) # NoIndex}}

\* the first half of animate: ax.clear(), rotation_angle = frame * 0.05 and
\* calculate_lensed_image(rotation_angle)
CalculateLensedImage(f) ==
    /\ pc \in {"ready", "shown"}
    /\ LET rot == RotationAngle(f)
           z   == zeros_like(LiveHeap(heap), X)
           src == SourcePositions(z.heap, black_hole, rot)
           rds == LookupReads(z.heap, black_hole, grid_size, src)
       IN  /\ frame' = f
           /\ rotation_angle' = rot
           /\ reads' = rds
           /\ divisors' = {[site |-> "gravitational_lensing", cell |-> c,
                            r |-> lensing_radius(z.heap[X][c], z.heap[Y][c]),
                            d |-> lensing_radius(z.heap[X][c], z.heap[Y][c])] :
                              c \in DOMAIN z.heap[X]}
           /\ IF \E rd \in rds : IndexRaises(rd.idx, grid_size)
              THEN /\ pc' = "error"
                   /\ heap' = z.heap
                   /\ lensed_image' = None
              ELSE /\ pc' = "lensed"
                   /\ heap' = LensLoop(z.heap, black_hole, grid_size, z.ref, src, 0)
                   /\ lensed_image' = z.ref
    /\ relativistic_image' = None /\ photon_glow' = None /\ final_image' = None
    /\ UNCHANGED <<black_hole, grid_size, X, Y, R, background, remembered,
                   fpc, probe, probe_prev, doppler>>

\* lines 119-123: np.where(R > rs, 1.0 + 2.0 * M / R**2, 1.0)
brightening(bh, r) ==
    IF FGt(r, bh.rs) THEN FAdd(Scale, FDiv(2 * bh.M, FMul(r, r))) ELSE Scale

\* apply_relativistic_effects(image, rotation_angle): the content of the
\* array it returns
apply_relativistic_effects(h, bh, image, rot) ==
    [c \in DOMAIN h[image] |->
        LET time_dilation == schwarzschild_metric_effects(bh, h[R][c]).time_dilation
            doppler_factor == doppler_shift(bh, h[X][c], h[Y][c], rot)
            relativistic == FMul(FMul(h[image][c], time_dilation), doppler_factor)
        IN  FClip(FMul(relativistic, brightening(bh, h[R][c])), 0, 2 * Scale)]

\* the divisions by r that apply_relativistic_effects performs for cell c:
\* rs/r, 2*M*a / (r**3 + a**2 * r) and 2.0*M / R**2 (np.where evaluates both
\* of its branches for every cell)
RelativisticDivisors(h, bh) ==
    UNION {{[site |-> "schwarzschild_metric_effects", cell |-> c,
             r |-> h[R][c], d |-> h[R][c]],
            [site |-> "doppler_shift", cell |-> c,
             r |-> radius(h[X][c], h[Y][c]),
             d |-> doppler_denominator(bh, radius(h[X][c], h[Y][c]))],
            [site |-> "brightening", cell |-> c,
             r |-> h[R][c], d |-> FMul(h[R][c], h[R][c])]} : c \in DOMAIN h[R]}

ApplyRelativisticEffects ==
    /\ pc = "lensed"
    /\ pc' = "relativistic"
    /\ heap' = Alloc(heap, apply_relativistic_effects(heap, black_hole,
                                                      lensed_image, rotation_angle))
    /\ relativistic_image' = NewRef(heap)
    /\ divisors' = divisors \cup RelativisticDivisors(heap, black_hole)
    /\ UNCHANGED <<black_hole, grid_size, X, Y, R, background, frame,
                   rotation_angle, lensed_image, photon_glow, final_image,
                   reads, remembered, fpc, probe, probe_prev, doppler>>

\* create_photon_sphere_glow(rotation_angle): the content of its result
create_photon_sphere_glow(h, bh, rot) ==
    [c \in DOMAIN h[R] |->
        LET photon_radius == FMul(Lit(15, 10), bh.rs)
            ring_distance == FAbs(FSub(h[R][c], photon_radius))
            ring_intensity ==
                FMul(FExp(FDiv(FNeg(FMul(ring_distance, ring_distance)), Lit(5, 10))),
                     2 * Scale)
            phi == FAtan2(h[Y][c], h[X][c])
            rotation_pattern ==
                FAdd(Scale, FMul(Lit(5, 10), FSin(FAdd(3 * phi, FMul(rot, 4 * Scale)))))
        IN  FMul(ring_intensity, rotation_pattern)]

CreatePhotonSphereGlow ==
    /\ pc = "relativistic"
    /\ pc' = "glow"
    /\ heap' = Alloc(heap, create_photon_sphere_glow(heap, black_hole, rotation_angle))
    /\ photon_glow' = NewRef(heap)
    /\ UNCHANGED <<black_hole, grid_size, X, Y, R, background, frame,
                   rotation_angle, lensed_image, relativistic_image, final_image,
                   reads, divisors, remembered, fpc, probe, probe_prev, doppler>>

\* line 165: the mask lensing_sim.R <= lensing_sim.black_hole.rs
HorizonMask(r, bh) == FLe(r, bh.rs)

\* lines 162-165: final_image = relativistic_image + photon_glow, then
\* final_image[R <= rs] = 0 in place
compose_final(h, bh, rel, glow) ==
    LET sum == [c \in DOMAIN h[rel] |-> FAdd(h[rel][c], h[glow][c])]
        h1  == Alloc(h, sum)
        fin == NewRef(h)
    IN  [heap |-> [h1 EXCEPT ![fin] =
                      [c \in DOMAIN sum |->
                          IF HorizonMask(h1[R][c], bh) THEN 0 ELSE h1[fin][c]]],
         ref  |-> fin]

\* the rest of animate: the sum, the final mask and the hand-over of
\* final_image to imshow.  The history variable remembered keeps the images of
\* one finished frame, chosen freely, and whether a frame of another number
\* was finished after it.
ComposeAndShow ==
    /\ pc = "glow"
    /\ pc' = "shown"
    /\ LET f == compose_final(heap, black_hole, relativistic_image, photon_glow)
           images == [lensed |-> f.heap[lensed_image],
                      relativistic |-> f.heap[relativistic_image],
                      glow |-> f.heap[photon_glow],
                      final |-> f.heap[f.ref]]
       IN  /\ heap' = f.heap
           /\ final_image' = f.ref
           /\ \/ /\ ~remembered.set
                 /\ remembered' = [frame |-> frame, out |-> images,
                                   set |-> TRUE, other |-> FALSE]
              \/ remembered' =
                    IF remembered.set /\ remembered.frame # frame
                    THEN [remembered EXCEPT !.other = TRUE]
                    ELSE remembered
    /\ UNCHANGED <<black_hole, grid_size, X, Y, R, background, frame,
                   rotation_angle, lensed_image, relativistic_image, photon_glow,
                   reads, divisors, fpc, probe, probe_prev, doppler>>

(***************************************************************************)
(* The field model on its own: BlackHolePhysics(mass, spin) and calls of   *)
(* gravitational_lensing and doppler_shift with scalar arguments.          *)
(***************************************************************************)
Masses == {Scale, 2 * Scale}
Spins  == {Lit(5, 10), Lit(8, 10)}

\* positions: the integer lattice, and positions at and inside the 0.1 floor
LatticeCoords == {k * Scale : k \in (0 - MaxCoord) .. MaxCoord}
NearCoords == {0, Lit(5, 100), 0 - Lit(5, 100), Lit(1, 10)}
ProbePoints == (LatticeCoords \X LatticeCoords) \cup (NearCoords \X NearCoords)

NewBlackHole(mass, spin) ==
    /\ fpc = "new"
    /\ fpc' = "ready"
    /\ black_hole' = BlackHolePhysics_init(mass, spin)
    /\ UNCHANGED <<renderer_vars, probe, probe_prev, doppler>>

\* a first and a second call of gravitational_lensing on the same object
GravitationalLensing(x, y) ==
    /\ fpc \in {"ready", "called"}
    /\ fpc' = IF fpc = "ready" THEN "called" ELSE "done"
    /\ LET d == gravitational_lensing(black_hole, x, y)
       IN  probe' = [x |-> x, y |-> y, dx |-> d.x, dy |-> d.y, set |-> TRUE]
    /\ probe_prev' = probe
    /\ UNCHANGED <<renderer_vars, black_hole, doppler>>

\* one call of doppler_shift on a new object
DopplerShift(x, y, rot) ==
    /\ fpc = "ready"
    /\ fpc' = "done"
    /\ doppler' = [x |-> x, y |-> y, rot |-> rot,
                   out |-> doppler_shift(black_hole, x, y, rot), set |-> TRUE]
    /\ UNCHANGED <<renderer_vars, black_hole, probe, probe_prev>>

FieldInit ==
    /\ pc = "off"
    /\ black_hole = NoBlackHole
    /\ grid_size = 0
    /\ X = None /\ Y = None /\ R = None /\ background = None
    /\ heap = EmptyHeap
    /\ frame = 0
    /\ rotation_angle = 0
    /\ lensed_image = None /\ relativistic_image = None
    /\ photon_glow = None /\ final_image = None
    /\ reads = {}
    /\ divisors = {}
    /\ remembered = NoFrame
    /\ fpc = "new"
    /\ probe = NoProbe /\ probe_prev = NoProbe /\ doppler = NoDoppler

FieldNext ==
    \/ \E mass \in Masses, spin \in Spins : NewBlackHole(mass, spin)
    \/ \E p \in ProbePoints : GravitationalLensing(p[1], p[2])
    \/ \E p \in ProbePoints, f \in Frames : DopplerShift(p[1], p[2], RotationAngle(f))

FieldSpec == FieldInit /\ [][FieldNext]_vars

Init ==
    /\ pc = "new"
    /\ black_hole = NoBlackHole
    /\ grid_size = 0
    /\ X = None /\ Y = None /\ R = None /\ background = None
    /\ heap = EmptyHeap
    /\ frame = 0
    /\ rotation_angle = 0
    /\ lensed_image = None /\ relativistic_image = None
    /\ photon_glow = None /\ final_image = None
    /\ reads = {}
    /\ divisors = {}
    /\ remembered = NoFrame
    /\ fpc = "off"
    /\ probe = NoProbe /\ probe_prev = NoProbe /\ doppler = NoDoppler

Next ==
    \/ \E n \in (0 - 1) .. MaxGrid : Construct(n)
    \/ \E f \in Frames : CalculateLensedImage(f)
    \/ ApplyRelativisticEffects
    \/ CreatePhotonSphereGlow
    \/ ComposeAndShow

Spec == Init /\ [][Next]_vars

(***************************************************************************)
(* Properties of the program.                                              *)
(***************************************************************************)
FrameStates == {"lensed", "relativistic", "glow", "shown"}

\* C1: every value of the final intensity frame (final_image of animate, after
\* compositing, photon-ring overlay and final masking) lies in [0, 2].
C1_FinalWithinZeroTwo ==
    pc = "shown" =>
        \A c \in DOMAIN heap[final_image] :
            FLe(0, heap[final_image][c]) /\ FLe(heap[final_image][c], 2 * Scale)

\* C2: every cell with r <= rs is exactly 0 in the final frame, and every cell
\* with r < 1.1*rs is exactly 0 in the image calculate_lensed_image returns.
C2_HorizonInvariant ==
    /\ pc \in FrameStates =>
          \A c \in DOMAIN heap[lensed_image] :
              10 * heap[R][c] < 11 * black_hole.rs => heap[lensed_image][c] = 0
    /\ pc = "shown" =>
          \A c \in DOMAIN heap[final_image] :
              heap[R][c] <= black_hole.rs => heap[final_image][c] = 0

\* a finished frame in which the final mask zeroed a cell whose sum was not 0,
\* and the horizon test zeroed a cell whose source position has a background
\* sample
C2_Witness ==
    /\ pc = "shown"
    /\ \E c \in DOMAIN heap[final_image] :
          /\ heap[R][c] <= black_hole.rs
          /\ FAdd(heap[relativistic_image][c], heap[photon_glow][c]) # 0
    /\ \E c \in DOMAIN heap[lensed_image] :
          /\ 10 * heap[R][c] < 11 * black_hole.rs
          /\ LET src == SourcePositions(heap, black_hole, rotation_angle)[c]
             IN  /\ Abs(src.x) < 8 * Scale /\ Abs(src.y) < 8 * Scale
                 /\ heap[background][<<GridIndex(src.y, grid_size),
                                       GridIndex(src.x, grid_size)>>] # 0

\* C3: construction with an invalid parameter (grid resolution <= 0,
\* non-positive mass, spin outside [0, 1)) is rejected with an error: no
\* renderer is produced.
C3_InvalidConfigurationRejected ==
    (pc # "new" /\ pc # "off" /\ grid_size <= 0) => pc = "error"

\* C4: a frame computed for the same frame number as an earlier frame of the
\* same renderer has the same four images (lensed, relativistic, glow, final),
\* whatever frames were computed in between.
C4_Deterministic ==
    (pc = "shown" /\ remembered.set /\ remembered.frame = frame) =>
        /\ heap[lensed_image] = remembered.out.lensed
        /\ heap[relativistic_image] = remembered.out.relativistic
        /\ heap[photon_glow] = remembered.out.glow
        /\ heap[final_image] = remembered.out.final

\* the remembered frame's number is rendered again after a frame of another
\* number, on a grid with cells outside the horizon
C4_Witness ==
    /\ pc = "shown" /\ remembered.set /\ remembered.frame = frame
    /\ remembered.other
    /\ \E c \in DOMAIN heap[final_image] : heap[final_image][c] # 0

\* C5: self.background is only read at indices in [0, N) x [0, N); a cell
\* outside the horizon margin whose source position is outside the domain
\* (|coord| >= extent) or whose index falls outside [0, N) has looked-up
\* intensity 0.
C5_LookupInBounds ==
    pc \in FrameStates \cup {"error"} =>
        /\ \A rd \in reads :
              /\ 0 <= rd.idx[1] /\ rd.idx[1] < grid_size
              /\ 0 <= rd.idx[2] /\ rd.idx[2] < grid_size
        /\ pc \in FrameStates =>
              \A c \in DOMAIN heap[lensed_image] :
                  LET src == SourcePositions(heap, black_hole, rotation_angle)[c]
                      gx == GridIndex(src.x, grid_size)
                      gy == GridIndex(src.y, grid_size)
                  IN  (\/ Abs(src.x) >= extent * Scale
                       \/ Abs(src.y) >= extent * Scale
                       \/ gx < 0 \/ gx >= grid_size
                       \/ gy < 0 \/ gy >= grid_size)
                      => heap[lensed_image][c] = 0

\* a lookup loop with a background read, with a cell outside the horizon margin
\* whose source lies exactly on the domain edge, and with one whose source lies
\* beyond it
C5_Witness ==
    /\ pc = "lensed"
    /\ reads # {}
    /\ \E c, d \in DOMAIN heap[lensed_image] :
          LET src == SourcePositions(heap, black_hole, rotation_angle)
          IN  /\ 10 * heap[R][c] >= 11 * black_hole.rs
              /\ 10 * heap[R][d] >= 11 * black_hole.rs
              /\ Abs(src[c].x) = extent * Scale \/ Abs(src[c].y) = extent * Scale
              /\ Abs(src[d].x) > extent * Scale \/ Abs(src[d].y) > extent * Scale

\* C6: doppler_shift(x, y, rotation_angle) returns a defined value within
\* [0.3, 2.0] for every finite (x, y, rotation_angle), the origin included.
C6_DopplerInRange ==
    doppler.set =>
        /\ doppler.out # NaN
        /\ 3 * Scale <= 10 * doppler.out /\ doppler.out <= 2 * Scale

\* |(dx, dy)|, rounded (components above 30 are scaled down to stay in range)
Magnitude(dx, dy) ==
    IF Abs(dx) > 30 * Scale \/ Abs(dy) > 30 * Scale
    THEN 10 * IsqrtNearest((dx \div 10) * (dx \div 10) + (dy \div 10) * (dy \div 10))
    ELSE IsqrtNearest(dx * dx + dy * dy)

\* |p|^2 of a call's position, exact
NormSq(p) == p.x * p.x + p.y * p.y

\* C7: for any two positions p, q with |p| < |q|, positions inside the 0.1
\* floor included, |gravitational_lensing(p)| > |gravitational_lensing(q)|;
\* and gravitational_lensing(0, 0) is a finite vector.
C7_StrictlyDecreasingEverywhere ==
    /\ (probe.set /\ probe_prev.set /\ NormSq(probe_prev) < NormSq(probe)) =>
          Magnitude(probe_prev.dx, probe_prev.dy) > Magnitude(probe.dx, probe.dy)
    /\ (probe.set /\ probe.x = 0 /\ probe.y = 0) =>
          IsFinite(probe.dx) /\ IsFinite(probe.dy)

\* C7 as amended: for any two positions p, q with 0.1 <= |p| < |q|,
\* |gravitational_lensing(p)| > |gravitational_lensing(q)|; and
\* gravitational_lensing(0, 0) is a finite vector.
C7_StrictlyDecreasingOutsideFloor ==
    /\ (/\ probe.set /\ probe_prev.set
        /\ 100 * NormSq(probe_prev) >= Scale * Scale
        /\ NormSq(probe_prev) < NormSq(probe)) =>
          Magnitude(probe_prev.dx, probe_prev.dy) > Magnitude(probe.dx, probe.dy)
    /\ (probe.set /\ probe.x = 0 /\ probe.y = 0) =>
          IsFinite(probe.dx) /\ IsFinite(probe.dy)

\* two calls on one object, the first exactly on the floor |p| = 0.1, the
\* second farther out
C7_Witness ==
    /\ probe.set /\ probe_prev.set
    /\ 100 * NormSq(probe_prev) = Scale * Scale
    /\ NormSq(probe_prev) < NormSq(probe)

\* one step leaves the renderer's parameters and the content of its arrays as
\* they were
SharedDataUnchanged ==
    /\ black_hole' = black_hole
    /\ grid_size' = grid_size
    /\ X' = X /\ Y' = Y /\ R' = R /\ background' = background
    /\ heap'[X'] = heap[X] /\ heap'[Y'] = heap[Y]
    /\ heap'[R'] = heap[R] /\ heap'[background'] = heap[background]

\* a step taken from a constructed renderer leaves the shared data unchanged
FrameStepKeepsSharedData ==
    (pc \in {"ready"} \cup FrameStates) => SharedDataUnchanged

\* C8: computing frames never changes the renderer's shared data: X, Y, R,
\* the background array and M, a, rs stay as construction left them.
C8_SharedDataReadOnly ==
    [][FrameStepKeepsSharedData]_vars

\* a second frame is finished on a grid with cells
C8_Witness ==
    /\ pc = "shown" /\ grid_size >= 2
    /\ remembered.set /\ remembered.other
    /\ final_image # None /\ DOMAIN heap = Shared \cup
          {lensed_image, relativistic_image, photon_glow, final_image}

\* C9: every division by the radius r made while computing a frame uses a
\* divisor clamped away from 0 (floor 0.1); no division by zero occurs.
C9_DivisorsClamped ==
    \A dv \in divisors : FLe(Lit(1, 10), dv.r) /\ dv.d # 0

\* the grid step of np.linspace(-extent, extent, n), n >= 2
GridStep(n) == FDiv(2 * extent * Scale, (n - 1) * Scale)

\* C10: the background sample read for a source position inside the domain is
\* the nearest grid cell: its coordinate differs from the source coordinate by
\* at most half a grid step in each axis.
C10_NearestCell ==
    (pc \in FrameStates /\ grid_size >= 2) =>
        \A rd \in reads :
            /\ 2 * Abs(heap[X][rd.idx] - rd.sx) <= GridStep(grid_size)
            /\ 2 * Abs(heap[Y][rd.idx] - rd.sy) <= GridStep(grid_size)

\* C10 as amended: the coordinate of the cell read differs from the source
\* coordinate by less than one grid step in each axis.
C10_WithinOneStep ==
    (pc \in FrameStates /\ grid_size >= 2) =>
        \A rd \in reads :
            /\ Abs(heap[X][rd.idx] - rd.sx) < GridStep(grid_size)
            /\ Abs(heap[Y][rd.idx] - rd.sy) < GridStep(grid_size)

\* a read whose cell is more than half a step from the source position
C10_Witness ==
    /\ pc \in FrameStates /\ grid_size >= 2
    /\ \E rd \in reads :
          2 * Abs(heap[X][rd.idx] - rd.sx) > GridStep(grid_size)
====
